---- MODULE Spec2Model ----
(***************************************************************************)
(* Model of InitialStateHelper (tests/integration/state_utils.py): the     *)
(* constructor, the callback returned by on_state_wrapper, and             *)
(* wait_for_initial_states, which awaits the helper's future through       *)
(* asyncio.wait_for.                                                       *)
(***************************************************************************)
EXTENDS Integers, Sequences, FiniteSets, TLC

\* ---------------------------------------------------------------- bounds
MaxEntities == 2   \* longest entity list handed to the constructor
MaxEvents == 3     \* number of states delivered to the wrapper
MaxWaiters == 2    \* number of wait_for_initial_states calls
MaxThreads == 2    \* producer threads calling the wrapper at the same time

\* (device_id, key) pairs the device can report for: two keys on one
\* device, and one key shared by two devices.
EntityIds == {<<1, 10>>, <<1, 11>>, <<2, 10>>}

\* An EntityInfo: button = TRUE stands for isinstance(entity, ButtonInfo).
EntityInfo == [device_id : {1, 2}, key : {10, 11}, button : BOOLEAN]

Inventory == {e \in EntityInfo : <<e.device_id, e.key>> \in EntityIds}

Waiters == 1..MaxWaiters

Threads == 1..MaxThreads

\* What a thread holds while it is not inside the wrapper.
NoState == [device_id |-> 0, key |-> 0, seq |-> 0]

BoundedSeq(S, n) == UNION {[1..m -> S] : m \in 0..n}

Range(s) == {s[i] : i \in 1..Len(s)}

VARIABLES
    entities,                 \* the list passed to __init__
    wait_initial_states,      \* self._wait_initial_states
    entities_by_id,           \* self._entities_by_id
    initial_states,           \* self.initial_states: key -> state
    initial_states_received,  \* state of the future: PENDING, FINISHED, CANCELLED
    set_result_by,            \* who called set_result: 0 = __init__, n = n-th event
    delivered,                \* states passed to wrapper, in order
    swallowed,                \* states for which wrapper returned without forwarding
    forwarded,                \* states passed to user_callback, in order
    raised,                   \* wrapper let an exception escape
    threads,                  \* per producer thread: next line of wrapper, its state
    wpc,                      \* per wait call: idle, waiting, returned
    outcome,                  \* per wait call: None, Resolved, TimedOut, Cancelled
    issued_sig,               \* future's state when the wait call was issued
    expired                   \* the wait call's timeout elapsed

vars == <<entities, wait_initial_states, entities_by_id, initial_states,
          initial_states_received, set_result_by, delivered, swallowed,
          forwarded, raised, threads, wpc, outcome, issued_sig, expired>>

helperVars == <<entities, wait_initial_states, entities_by_id, initial_states,
                set_result_by, delivered, swallowed, forwarded, raised,
                threads>>

\* ------------------------------------------------------------ constructor
EntityId(e) == <<e.device_id, e.key>>

\* The set comprehension of __init__: every non-Button entity's identity.
InitialWaitSetAll(ents) == {EntityId(ents[i]) : i \in 1..Len(ents)}

InitialWaitSet(ents) ==
    {EntityId(ents[i]) : i \in {j \in 1..Len(ents) : ~ents[j].button}}

\* The dict comprehension of __init__: a later entry replaces an earlier one.
EntitiesById(ents) ==
    [id \in {EntityId(ents[i]) : i \in 1..Len(ents)} |->
        LET last == CHOOSE i \in 1..Len(ents) :
                        /\ EntityId(ents[i]) = id
                        /\ \A j \in (i + 1)..Len(ents) : EntityId(ents[j]) # id
        IN  ents[last]]

\* create_future(), then set_result(True) when nothing is waited for.
InitialFutureNever(ws) == "PENDING"

InitialFuture(ws) == IF ws = {} THEN "FINISHED" ELSE "PENDING"

Init ==
    /\ entities \in BoundedSeq(Inventory, MaxEntities)
    /\ wait_initial_states = InitialWaitSet(entities)
    /\ entities_by_id = EntitiesById(entities)
    /\ initial_states = <<>>
    /\ initial_states_received = InitialFuture(wait_initial_states)
    /\ set_result_by = IF initial_states_received = "FINISHED" THEN <<0>> ELSE <<>>
    /\ delivered = <<>>
    /\ swallowed = <<>>
    /\ forwarded = <<>>
    /\ raised = FALSE
    /\ threads = [t \in Threads |-> [pc |-> "idle", state |-> NoState]]
    /\ wpc = [w \in Waiters |-> "idle"]
    /\ outcome = [w \in Waiters |-> "None"]
    /\ issued_sig = [w \in Waiters |-> "None"]
    /\ expired = [w \in Waiters |-> FALSE]

\* ------------------------------------------------------------- the future
FutureDone(fut) == fut # "PENDING"

\* What wait_for hands to its caller once the future is done: the result,
\* or the CancelledError of a future that a timed-out wait has cancelled.
FutureResult(fut) == IF fut = "FINISHED" THEN "Resolved" ELSE "Cancelled"

\* The future after a wait's timeout fired: wait_for cancels the future it
\* was given unless that future is already done.
FutureAfterTimeoutReset(fut) == "CANCELLED"

FutureAfterTimeout(fut) == IF FutureDone(fut) THEN fut ELSE "CANCELLED"

\* What wait_for hands to its caller when its timeout fired: a future that
\* is done by then still gives its result (or its CancelledError); one
\* that had to be cancelled is reported as TimeoutError.
TimeoutResult(fut) == IF FutureDone(fut) THEN FutureResult(fut) ELSE "TimedOut"

\* ---------------------------------------------------------------- wrapper
StateId(state) == <<state.device_id, state.key>>

\* self.initial_states[state.key] = state
StoreInitial(states, state) ==
    [k \in DOMAIN states \cup {state.key} |->
        IF k = state.key THEN state ELSE states[k]]

\* self._wait_initial_states.discard(entity_id)
DiscardNothing(ws, id) == ws

DiscardAll(ws, id) == {}

Discard(ws, id) == ws \ {id}

\* not self._wait_initial_states and not self._initial_states_received.done()
AllReceivedUnguarded(ws, fut) == ws = {}

AllReceived(ws, fut) == ws = {} /\ ~FutureDone(fut)

\* user_callback(state): one call, after the calls made before it
ForwardTwice(fwd, state) == Append(Append(fwd, state), state)

ForwardFront(fwd, state) == <<state>> \o fwd

Forward(fwd, state) == Append(fwd, state)

OnState(id) ==
    /\ Len(delivered) < MaxEvents
    /\ LET state == [device_id |-> id[1], key |-> id[2], seq |-> Len(delivered) + 1]
           entity_id == StateId(state)
       IN  /\ delivered' = Append(delivered, state)
           /\ IF entity_id \in wait_initial_states
              THEN LET ws == Discard(wait_initial_states, entity_id)
                   IN  /\ initial_states' = StoreInitial(initial_states, state)
                       /\ wait_initial_states' = ws
                       /\ IF AllReceived(ws, initial_states_received)
                          THEN \* set_result(True): InvalidStateError on a done future
                               IF FutureDone(initial_states_received)
                               THEN /\ raised' = TRUE
                                    /\ UNCHANGED <<initial_states_received,
                                                   set_result_by, swallowed>>
                               ELSE /\ initial_states_received' = "FINISHED"
                                    /\ set_result_by' = Append(set_result_by, state.seq)
                                    /\ swallowed' = Append(swallowed, state)
                                    /\ UNCHANGED raised
                          ELSE /\ swallowed' = Append(swallowed, state)
                               /\ UNCHANGED <<initial_states_received,
                                              set_result_by, raised>>
                       /\ UNCHANGED forwarded
              ELSE /\ forwarded' = Forward(forwarded, state)
                   /\ UNCHANGED <<initial_states, wait_initial_states,
                                  initial_states_received, set_result_by,
                                  swallowed, raised>>
    /\ UNCHANGED <<entities, entities_by_id, threads, wpc, outcome, issued_sig,
                   expired>>

\* ------------------------------------------------ wait_for_initial_states
\* The call is made; calls are numbered in the order they are made.  A
\* future that is already done gives its result (or its CancelledError)
\* without the timeout playing a part; otherwise the caller is suspended.
WaitIssue(w) ==
    /\ wpc[w] = "idle"
    /\ \A v \in 1..(w - 1) : wpc[v] # "idle"
    /\ issued_sig' = [issued_sig EXCEPT ![w] = initial_states_received]
    /\ IF FutureDone(initial_states_received)
       THEN /\ wpc' = [wpc EXCEPT ![w] = "returned"]
            /\ outcome' = [outcome EXCEPT ![w] = FutureResult(initial_states_received)]
       ELSE /\ wpc' = [wpc EXCEPT ![w] = "waiting"]
            /\ UNCHANGED outcome
    /\ UNCHANGED <<helperVars, initial_states_received, expired>>

\* The future became done while the caller was suspended.
WaitWake(w) ==
    /\ wpc[w] = "waiting"
    /\ FutureDone(initial_states_received)
    /\ wpc' = [wpc EXCEPT ![w] = "returned"]
    /\ outcome' = [outcome EXCEPT ![w] = FutureResult(initial_states_received)]
    /\ UNCHANGED <<helperVars, initial_states_received, issued_sig, expired>>

\* The timeout elapsed before the suspended caller ran again: wait_for
\* cancels the future it was given and raises TimeoutError, unless the
\* future is done by then.
WaitTimeout(w) ==
    /\ wpc[w] = "waiting"
    /\ initial_states_received' = FutureAfterTimeout(initial_states_received)
    /\ outcome' = [outcome EXCEPT ![w] = TimeoutResult(initial_states_received)]
    /\ wpc' = [wpc EXCEPT ![w] = "returned"]
    /\ expired' = [expired EXCEPT ![w] = TRUE]
    /\ UNCHANGED <<helperVars, issued_sig>>

Next ==
    \/ \E id \in EntityIds : OnState(id)
    \/ \E w \in Waiters : WaitIssue(w)
    \/ \E w \in Waiters : WaitWake(w)
    \/ \E w \in Waiters : WaitTimeout(w)

Spec == Init /\ [][Next]_vars

\* ------------------------------------------- wrapper called from threads
\* The wrapper takes no lock.  Called from several threads, its lines
\* interleave: each step below is one line (one call into a set, a dict or
\* the future), which the interpreter runs without interruption.
waitVars == <<wpc, outcome, issued_sig, expired>>

Goto(t, pc) == [threads EXCEPT ![t].pc = pc]

Return(t) == [threads EXCEPT ![t] = [pc |-> "idle", state |-> NoState]]

\* wrapper(state) is entered.
ThreadCall(t, id) ==
    /\ threads[t].pc = "idle"
    /\ Len(delivered) < MaxEvents
    /\ LET state == [device_id |-> id[1], key |-> id[2], seq |-> Len(delivered) + 1]
       IN  /\ delivered' = Append(delivered, state)
           /\ threads' = [threads EXCEPT ![t] = [pc |-> "check", state |-> state]]
    /\ UNCHANGED <<entities, wait_initial_states, entities_by_id, initial_states,
                   initial_states_received, set_result_by, swallowed, forwarded,
                   raised, waitVars>>

\* if entity_id in self._wait_initial_states
ThreadCheck(t) ==
    /\ threads[t].pc = "check"
    /\ threads' = Goto(t, IF StateId(threads[t].state) \in wait_initial_states
                          THEN "store" ELSE "forward")
    /\ UNCHANGED <<entities, wait_initial_states, entities_by_id, initial_states,
                   initial_states_received, set_result_by, delivered, swallowed,
                   forwarded, raised, waitVars>>

\* self.initial_states[state.key] = state
ThreadStore(t) ==
    /\ threads[t].pc = "store"
    /\ initial_states' = StoreInitial(initial_states, threads[t].state)
    /\ threads' = Goto(t, "discard")
    /\ UNCHANGED <<entities, wait_initial_states, entities_by_id,
                   initial_states_received, set_result_by, delivered, swallowed,
                   forwarded, raised, waitVars>>

\* self._wait_initial_states.discard(entity_id)
ThreadDiscard(t) ==
    /\ threads[t].pc = "discard"
    /\ wait_initial_states' = Discard(wait_initial_states, StateId(threads[t].state))
    /\ threads' = Goto(t, "test")
    /\ UNCHANGED <<entities, entities_by_id, initial_states,
                   initial_states_received, set_result_by, delivered, swallowed,
                   forwarded, raised, waitVars>>

\* The test of lines 148-151; when it fails the wrapper returns, the state
\* swallowed.
ThreadTest(t) ==
    /\ threads[t].pc = "test"
    /\ IF AllReceived(wait_initial_states, initial_states_received)
       THEN /\ threads' = Goto(t, "set")
            /\ UNCHANGED swallowed
       ELSE /\ threads' = Return(t)
            /\ swallowed' = Append(swallowed, threads[t].state)
    /\ UNCHANGED <<entities, wait_initial_states, entities_by_id, initial_states,
                   initial_states_received, set_result_by, delivered, forwarded,
                   raised, waitVars>>

\* self._initial_states_received.set_result(True), then return; set_result
\* raises InvalidStateError on a future that is done.
ThreadSetResult(t) ==
    /\ threads[t].pc = "set"
    /\ IF FutureDone(initial_states_received)
       THEN /\ raised' = TRUE
            /\ UNCHANGED <<initial_states_received, set_result_by, swallowed>>
       ELSE /\ initial_states_received' = "FINISHED"
            /\ set_result_by' = Append(set_result_by, threads[t].state.seq)
            /\ swallowed' = Append(swallowed, threads[t].state)
            /\ UNCHANGED raised
    /\ threads' = Return(t)
    /\ UNCHANGED <<entities, wait_initial_states, entities_by_id, initial_states,
                   delivered, forwarded, waitVars>>

\* user_callback(state)
ThreadForward(t) ==
    /\ threads[t].pc = "forward"
    /\ forwarded' = Forward(forwarded, threads[t].state)
    /\ threads' = Return(t)
    /\ UNCHANGED <<entities, wait_initial_states, entities_by_id, initial_states,
                   initial_states_received, set_result_by, delivered, swallowed,
                   raised, waitVars>>

NextThreads ==
    \/ \E t \in Threads, id \in EntityIds : ThreadCall(t, id)
    \/ \E t \in Threads : ThreadCheck(t)
    \/ \E t \in Threads : ThreadStore(t)
    \/ \E t \in Threads : ThreadDiscard(t)
    \/ \E t \in Threads : ThreadTest(t)
    \/ \E t \in Threads : ThreadSetResult(t)
    \/ \E t \in Threads : ThreadForward(t)

SpecThreads == Init /\ [][NextThreads]_vars

TypeOK ==
    /\ wait_initial_states \subseteq EntityIds
    /\ initial_states_received \in {"PENDING", "FINISHED", "CANCELLED"}
    /\ DOMAIN initial_states \subseteq {10, 11}
    /\ Len(delivered) <= MaxEvents
    /\ wpc \in [Waiters -> {"idle", "waiting", "returned"}]
    /\ outcome \in [Waiters -> {"None", "Resolved", "TimedOut", "Cancelled"}]
    /\ raised \in BOOLEAN

\* ------------------------------------------------------------- properties
\* E: the identities the constructor tracks.
Tracked == InitialWaitSet(entities)

\* Identities that have been delivered at least once.
Reported == {StateId(delivered[i]) : i \in 1..Len(delivered)}

\* delivered[i] is the first state delivered for its identity.
IsFirst(i) ==
    \A j \in 1..(i - 1) : StateId(delivered[j]) # StateId(delivered[i])

\* Every entry the inventory has for id is a ButtonInfo (none at all included).
OnlyButtons(id) ==
    \A i \in 1..Len(entities) : EntityId(entities[i]) = id => entities[i].button

\* C1: once exactly one state per tracked identity has been delivered (in any
\* order, nothing else), the pending set is empty, the future is resolved and
\* nothing has been forwarded.
C1_OneEachResolves ==
    (Len(delivered) = Cardinality(Tracked) /\ Reported = Tracked)
        => /\ wait_initial_states = {}
           /\ initial_states_received = "FINISHED"
           /\ forwarded = <<>>

\* C2: a delivered state is swallowed exactly when its identity is tracked and
\* it is the first state delivered for that identity; every other delivered
\* state is handed to user_callback as it was delivered.
C2_FirstSwallowedRestForwarded ==
    /\ \A i \in 1..Len(delivered) :
          /\ (delivered[i] \in Range(swallowed))
                <=> (StateId(delivered[i]) \in Tracked /\ IsFirst(i))
          /\ (delivered[i] \in Range(forwarded))
                <=> ~(StateId(delivered[i]) \in Tracked /\ IsFirst(i))
    /\ Range(swallowed) \cup Range(forwarded) \subseteq Range(delivered)
    /\ Len(swallowed) + Len(forwarded) = Len(delivered)

\* A tracked identity has reported twice: first state swallowed, second forwarded.
C2_Witness ==
    \E i, j \in 1..Len(delivered) :
        /\ i < j
        /\ StateId(delivered[i]) \in Tracked
        /\ StateId(delivered[i]) = StateId(delivered[j])
        /\ delivered[i] \in Range(swallowed)
        /\ delivered[j] \in Range(forwarded)

\* C3: a state whose identity is absent from the inventory, or has only
\* ButtonInfo entries there, is forwarded on every delivery, never swallowed.
C3_UntrackedAlwaysForwarded ==
    \A i \in 1..Len(delivered) :
        OnlyButtons(StateId(delivered[i]))
            => /\ delivered[i] \in Range(forwarded)
               /\ delivered[i] \notin Range(swallowed)
               /\ delivered[i].key \in DOMAIN initial_states
                     => initial_states[delivered[i].key] # delivered[i]

\* A Button identity has reported twice and an identity missing from the
\* inventory once, next to a tracked identity; all three were forwarded.
C3_Witness ==
    /\ Tracked # {}
    /\ \E i, j, k \in 1..Len(delivered) :
          /\ i < j
          /\ StateId(delivered[i]) = StateId(delivered[j])
          /\ StateId(delivered[i]) \in DOMAIN entities_by_id
          /\ OnlyButtons(StateId(delivered[i]))
          /\ StateId(delivered[k]) \notin DOMAIN entities_by_id
          /\ {delivered[i], delivered[j], delivered[k]} \subseteq Range(forwarded)

\* C4: after a wait has timed out, emptying the pending set resolves the
\* future, and a wait issued once the set is empty reports Resolved.
C4_TimeoutDoesNotInvalidate ==
    ((\E w \in Waiters : outcome[w] = "TimedOut") /\ wait_initial_states = {})
        => /\ initial_states_received = "FINISHED"
           /\ \A w \in Waiters : outcome[w] # "Cancelled"

\* C5: the future is resolved exactly when the pending set is empty, by one
\* set_result call: the constructor's when nothing is tracked, otherwise the
\* call made for the last state swallowed.
C5_ResolvedIffEmpty ==
    /\ (initial_states_received = "FINISHED") <=> (wait_initial_states = {})
    /\ Len(set_result_by) <= 1
    /\ initial_states_received = "FINISHED"
          => /\ Len(set_result_by) = 1
             /\ (set_result_by[1] = 0) <=> (Tracked = {})
             /\ set_result_by[1] # 0
                   => /\ swallowed # <<>>
                      /\ swallowed[Len(swallowed)].seq = set_result_by[1]
                      /\ Len(swallowed) = Cardinality(Tracked)

\* C6: with no tracked identity the constructor leaves the future resolved,
\* and every wait returns Resolved without a state having to be delivered.
C6_EmptyResolvedAtConstruction ==
    (\A i \in 1..Len(entities) : entities[i].button)
        => /\ initial_states_received = "FINISHED"
           /\ set_result_by = <<0>>
           /\ \A w \in Waiters :
                 /\ wpc[w] # "waiting"
                 /\ wpc[w] = "returned" => outcome[w] = "Resolved" /\ ~expired[w]

\* An inventory of Buttons only, no state delivered, a wait has returned Resolved.
C6_Witness ==
    /\ entities # <<>>
    /\ \A i \in 1..Len(entities) : entities[i].button
    /\ delivered = <<>>
    /\ \E w \in Waiters : wpc[w] = "returned" /\ outcome[w] = "Resolved"

\* C7: a wait that returns while fewer than |E| tracked identities have
\* reported never reports Resolved, and reports TimedOut when its timeout
\* has elapsed.
C7_DeadlineGivesTimedOut ==
    \A w \in Waiters :
        (wpc[w] = "returned" /\ Cardinality(Reported \cap Tracked) < Cardinality(Tracked))
            => /\ outcome[w] # "Resolved"
               /\ expired[w] => outcome[w] = "TimedOut"

\* C8: a resolved future stays resolved through every later step, no further
\* set_result is made, the wrapper raises nothing, and every wait that
\* returns from then on reports Resolved.
C8_Latch ==
    [][initial_states_received = "FINISHED"
          => /\ initial_states_received' = "FINISHED"
             /\ set_result_by' = set_result_by
             /\ ~raised'
             /\ \A w \in Waiters :
                   (wpc[w] # "returned" /\ wpc'[w] = "returned")
                       => outcome'[w] = "Resolved"]_vars

\* Resolved by a delivered state, then a late duplicate was delivered, and
\* every wait was issued after resolution and returned Resolved.
C8_Witness ==
    /\ initial_states_received = "FINISHED"
    /\ Len(set_result_by) = 1
    /\ set_result_by[1] > 0
    /\ \E i \in 1..Len(delivered) :
          /\ i > set_result_by[1]
          /\ StateId(delivered[i]) \in Tracked
          /\ delivered[i] \in Range(forwarded)
    /\ \A w \in Waiters : issued_sig[w] = "FINISHED" /\ outcome[w] = "Resolved"

\* C9: an entry of initial_states, once set, is never changed by a later
\* wrapper call.
C9_FirstWriteWins ==
    [][\A k \in DOMAIN initial_states :
          /\ k \in DOMAIN initial_states'
          /\ initial_states'[k] = initial_states[k]]_vars

\* C10: initial_states has one entry per tracked identity that has reported,
\* the entry under k being the state swallowed for (d, k); it has |E| entries
\* once the future is resolved.
C10_OneEntryPerReported ==
    /\ Cardinality(DOMAIN initial_states)
          = Cardinality(Tracked \ wait_initial_states)
    /\ \A id \in Tracked \ wait_initial_states :
          /\ id[2] \in DOMAIN initial_states
          /\ StateId(initial_states[id[2]]) = id
          /\ initial_states[id[2]] \in Range(swallowed)
    /\ initial_states_received = "FINISHED"
          => Cardinality(DOMAIN initial_states) = Cardinality(Tracked)

\* Identities with an inventory entry that is not a ButtonInfo.
StatefulIds ==
    {id \in EntityIds :
        \E i \in 1..Len(entities) : EntityId(entities[i]) = id /\ ~entities[i].button}

\* The step is a wrapper call; NewState is the state it was called with.
IsOnState == Len(delivered') = Len(delivered) + 1

NewState == delivered'[Len(delivered')]

\* C11: a wait that was suspended and returned before its own timeout
\* elapsed reports Resolved, whatever other waits have timed out.
C11_IndependentTimeouts ==
    \A w \in Waiters :
        (wpc[w] = "returned" /\ issued_sig[w] = "PENDING" /\ ~expired[w])
            => outcome[w] = "Resolved"

\* C12: no wrapper call raises: each one returns after swallowing or
\* forwarding its state, and the pending set and the snapshot map follow the
\* delivered states whether or not a wait has timed out.
C12_OnEventNeverRaises ==
    /\ ~raised
    /\ Len(swallowed) + Len(forwarded) = Len(delivered)
    /\ wait_initial_states = StatefulIds \ Reported
    /\ DOMAIN initial_states = {id[2] : id \in StatefulIds \cap Reported}

\* A wait timed out with an identity missing; afterwards its state emptied
\* the pending set with no wait suspended, and a state of an identity
\* missing from the inventory was delivered as well.
C12_Witness ==
    /\ \E w \in Waiters : outcome[w] = "TimedOut"
    /\ \A w \in Waiters : wpc[w] # "waiting"
    /\ initial_states_received = "CANCELLED"
    /\ StatefulIds # {}
    /\ wait_initial_states = {}
    /\ initial_states # <<>>
    /\ \E i \in 1..Len(delivered) : StateId(delivered[i]) \notin DOMAIN entities_by_id

\* C13: a step of a wait call changes neither the pending set, nor the
\* snapshot map, nor the future, and the future is only ever pending or
\* resolved.
C13_AwaitPureReader ==
    [][wpc' # wpc
          => /\ UNCHANGED <<wait_initial_states, initial_states,
                            initial_states_received>>
             /\ initial_states_received' \in {"PENDING", "FINISHED"}]_vars

\* C14: the pending set starts as the Stateful identities and only shrinks:
\* a wrapper call for a pending identity removes that identity and nothing
\* else, every other step leaves the set as it is, and an identity that has
\* reported is never in it again.
C14_PendingShrinks ==
    [][/\ delivered = <<>> => wait_initial_states = StatefulIds
       /\ wait_initial_states' \subseteq wait_initial_states
       /\ wait_initial_states' \cap Reported = {}
       /\ IF IsOnState /\ StateId(NewState) \in wait_initial_states
          THEN wait_initial_states' = wait_initial_states \ {StateId(NewState)}
          ELSE wait_initial_states' = wait_initial_states]_vars

\* Two identities were pending; one has been removed, the other is still
\* pending, and the removed one has reported again.
C14_Witness ==
    /\ Cardinality(StatefulIds) = 2
    /\ Cardinality(wait_initial_states) = 1
    /\ Len(swallowed) = 1
    /\ Len(forwarded) >= 1
    /\ StateId(forwarded[1]) = StateId(swallowed[1])

\* C15: a wrapper call for an identity that is not pending calls
\* user_callback once, with the state it was given, and changes neither the
\* pending set, nor the snapshot map, nor the future.
C15_NotPendingForwards ==
    [][(IsOnState /\ StateId(NewState) \notin wait_initial_states)
          => /\ forwarded' = Append(forwarded, NewState)
             /\ UNCHANGED <<wait_initial_states, initial_states,
                            initial_states_received, set_result_by,
                            swallowed, raised>>]_vars

\* With the future still pending and an identity still missing, a state of an
\* identity already discarded and a state of an untracked identity were
\* both forwarded.
C15_Witness ==
    /\ initial_states_received = "PENDING"
    /\ wait_initial_states # {}
    /\ Len(forwarded) = 2
    /\ \E i, j \in 1..2 :
          /\ StateId(forwarded[i]) \in StatefulIds
          /\ StateId(forwarded[j]) \notin StatefulIds

\* C17: when the inventory names an identity more than once, whether the
\* identity is pending after construction follows the last of its entries,
\* the one entities_by_id keeps.
C17_LastEntryDecides ==
    delivered = <<>>
        => \A id \in DOMAIN entities_by_id :
              (id \in wait_initial_states) <=> ~entities_by_id[id].button

\* The states neither swallowed yet nor forwarded, in delivery order.
NotIn(seq, excluded) ==
    LET Keep(s) == s \notin excluded IN SelectSeq(seq, Keep)

\* C18: the states handed to user_callback are the delivered states without
\* the swallowed ones, in the order of delivery.
C18_ForwardedInOrder ==
    /\ forwarded = NotIn(delivered, Range(swallowed))
    /\ swallowed = NotIn(delivered, Range(forwarded))

\* A state was forwarded, then one was swallowed, then another forwarded.
C18_Witness ==
    /\ Len(forwarded) = 2
    /\ Len(swallowed) = 1
    /\ forwarded[1].seq < swallowed[1].seq
    /\ swallowed[1].seq < forwarded[2].seq

\* C19: every delivered state is either swallowed or forwarded, once and not
\* both; the number swallowed is |E| minus the size of the pending set and
\* so at most |E|.
C19_Conservation ==
    /\ Len(delivered) = Len(swallowed) + Len(forwarded)
    /\ Range(swallowed) \cup Range(forwarded) = Range(delivered)
    /\ Range(swallowed) \cap Range(forwarded) = {}
    /\ Cardinality(Range(forwarded)) = Len(forwarded)
    /\ Cardinality(Range(swallowed)) = Len(swallowed)
    /\ Len(swallowed) = Cardinality(StatefulIds) - Cardinality(wait_initial_states)
    /\ Len(swallowed) <= Cardinality(StatefulIds)

\* Every delivered state of a run that used all its deliveries is accounted
\* for: two tracked identities swallowed, a duplicate forwarded.
C19_Witness ==
    /\ Cardinality(StatefulIds) = 2
    /\ wait_initial_states = {}
    /\ Len(swallowed) = 2
    /\ Len(forwarded) = 1
    /\ StateId(forwarded[1]) \in StatefulIds

\* C16: with the wrapper called from several threads at once, at most one
\* state per tracked identity is swallowed, at most one call resolves the
\* future and none raises; once every call has returned and the pending set
\* is empty, exactly one call has resolved it.
C16_AtomicUnderThreads ==
    /\ \A id \in StatefulIds :
          Cardinality({s \in Range(swallowed) : StateId(s) = id}) <= 1
    /\ Len(set_result_by) <= 1
    /\ ~raised
    /\ ((\A t \in Threads : threads[t].pc = "idle") /\ wait_initial_states = {})
          => Len(set_result_by) = 1
====
